---- MODULE Spec2Model ----
(***************************************************************************)
(* Model of the image localisation pipeline of juejin-download             *)
(* (process-images.js with utils.js and lib/config.js): one collection     *)
(* (one book folder) with its source documents, its output documents, its  *)
(* images directory, mapping.json and missing-images.json.                 *)
(*                                                                         *)
(* A document's text is abstracted to the sequence of image references it  *)
(* contains, in text order.  A reference is its exact source substring     *)
(* (fullMatch): surface syntax, URL and the remaining text (alt text or    *)
(* the other attributes of the tag).  An output document is the source     *)
(* content it was generated from together with the positions whose link    *)
(* was rewritten to images/<name>.                                         *)
(*                                                                         *)
(* Collections are processed one after the other and share no state, so    *)
(* one collection is modelled; it always holds its three documents.        *)
(* Between two runs the user may edit a document, delete or add a file of  *)
(* the images directory, or delete mapping.json.                           *)
(***************************************************************************)
EXTENDS Integers, Sequences, FiniteSets, TLC

\* ------------------------------------------------------------------------
\* Configuration (lib/config.js).  The defaults are maxConcurrent 5 and
\* retryCount 3; the model runs with MAX_CONCURRENT=2 and RETRY_COUNT=2 set
\* in the environment, which loadConfigFromEnv reads.
\* ------------------------------------------------------------------------
MAX_CONCURRENT == 2
RETRY_COUNT == 2

\* ------------------------------------------------------------------------
\* Input domains
\* ------------------------------------------------------------------------
MaxUserActions == 2
MaxRefs == 3
MaxSections == 2
MaxSegment == 3
MaxLogCalls == 2
files == <<"a.md", "b.md", "c.md">>
Docs == {files[i] : i \in 1..Len(files)}
URLs == {"u1", "u2"}

md(u, a) == [type |-> "markdown", url |-> u, alt |-> a]
html(u, a) == [type |-> "html", url |-> u, alt |-> a]

NoImages == << >>
OneImage == << md("u1", "a") >>
MarkdownAndTag == << md("u1", "a"), html("u1", "a") >>
ThreeImages == << md("u1", "a"), md("u1", "a"), md("u2", "a") >>
Contents == {NoImages, OneImage, MarkdownAndTag, ThreeImages}

\* ------------------------------------------------------------------------
\* utils.js
\* ------------------------------------------------------------------------
\* utils.js does not import "path", so path.basename raises inside the try
\* block and the name is always the first 8 hex digits of md5(url) + ".jpg".
generateImageFileName(url) ==
    CASE url = "u1" -> "5f1d7a3c.jpg"
      [] url = "u2" -> "c09b22e4.jpg"

calculateFileHash(content) == <<"sha256", content>>

Names == {generateImageFileName(u) : u \in URLs}
StrayFile == "stray.png"

\* ------------------------------------------------------------------------
\* extractImageUrls
\* ------------------------------------------------------------------------
RECURSIVE htmlMatches(_, _, _)
htmlMatches(content, i, urls) ==
    IF i > Len(content) THEN urls
    ELSE LET r == content[i]
             alreadyMatched == \E j \in 1..Len(urls) :
                                   urls[j] = r \/ urls[j].url = r.url
         IN IF r.type = "html" /\ ~alreadyMatched
            THEN htmlMatches(content, i + 1, Append(urls, r))
            ELSE htmlMatches(content, i + 1, urls)

isMarkdown(r) == r.type = "markdown"

extractImageUrls(content) == htmlMatches(content, 1, SelectSeq(content, isMarkdown))

namesOf(content) ==
    {generateImageFileName(extractImageUrls(content)[i].url) :
        i \in 1..Len(extractImageUrls(content))}

\* ------------------------------------------------------------------------
\* State
\* ------------------------------------------------------------------------
VARIABLES
    src,              \* downloads/<book>/<doc>: content of each source document
    out,              \* downloads-with-images/<book>/<doc>: output documents
    images,           \* file names in downloads-with-images/<book>/images
    mappingFile,      \* mapping.json
    missingFile,      \* missing-images.json
    pc,               \* position of the process-images run
    cur,              \* index into files of the document being processed
    mapping,          \* processFolder: const mapping = {}
    usedImageFiles,   \* processFolder: const usedImageFiles = new Set()
    missingImages,    \* processFolder: const missingImages = {}
    downloadPromises, \* processMarkdownFile: the downloadImage calls
    downloadResults,  \* processMarkdownFile: Map fullMatch -> success
    chunk,            \* index of the first promise of the awaited chunk
    cleanedCount,     \* processFolder: files deleted by the cleanup
    result,           \* what processMarkdownFile returned for each document
    netCalls,         \* got() requests made for each document in this run
    start,            \* condition of each document when the run started
    out0,             \* output documents when the run started
    rerun,            \* the run directly follows a completed run
    allHit,           \* every asset of the document was on disk when its
                      \* processing began
    userActions,      \* number of things the user has done between two runs
    unreadable,       \* source documents that readFileSync cannot read
    existingMapping,  \* processFolder: outcome of loading mapping.json
    outputDir,        \* downloads-with-images exists
    missing,          \* fix-missing-images: assets scanForMissingImages found missing
    orphaned,         \* fix-missing-images: files scanForMissingImages found unmapped
    item,             \* fix-missing-images: index into missing of the asset retried
    retryAttempt,     \* tryDownloadImage: number of the attempt in flight
    text,             \* extractImageUrls: the content it is called with
    extracted,        \* extractImageUrls: what it returned
    wasProcessed,     \* isFileProcessed: the document it was called for and
                      \* what it returned
    sectionFiles,     \* batch-download: the section files of the book directory
    sectionInfo,      \* batch-download: what getSection returns for each section
    sectionIndex,     \* downloadBook: position in finishSections
    downloadedCount,  \* downloadBook: sections written
    skippedCount,     \* downloadBook: sections skipped
    updatedCount,     \* downloadBook: sections written over an older file
    retryCount,       \* config.network.retryCount as loadConfigFromEnv left it
    download,         \* one downloadImage call and what its caller made of it
    logCall,          \* Logger.log: the configured level and, for each call,
                      \* the level of the message and whether it was emitted
    nameCall          \* generateImageFileName: the URL and the name returned

fsVars == <<src, out, images, mappingFile, missingFile>>
batchVars == <<sectionFiles, sectionInfo, sectionIndex, downloadedCount,
               skippedCount, updatedCount>>
unitVars == <<retryCount, download, logCall, nameCall>>
auxVars == <<text, extracted, wasProcessed, batchVars, unitVars>>
fixVars == <<missing, orphaned, item, retryAttempt>>
passVars == <<cur, mapping, usedImageFiles, missingImages,
              downloadPromises, downloadResults, chunk, cleanedCount>>
ghostVars == <<result, netCalls, start, out0, rerun, allHit>>
vars == <<src, out, images, mappingFile, missingFile, pc, cur, mapping,
          usedImageFiles, missingImages, downloadPromises, downloadResults,
          chunk, cleanedCount, result, netCalls, start, out0, rerun, allHit,
          userActions, unreadable, existingMapping, outputDir, missing,
          orphaned, item, retryAttempt, text, extracted, wasProcessed,
          sectionFiles, sectionInfo, sectionIndex, downloadedCount,
          skippedCount, updatedCount, retryCount, download, logCall, nameCall>>

\* no call of extractImageUrls or isFileProcessed was made and
\* batch-download has not run
NotExtracted == [done |-> FALSE, urls |-> << >>]
NotAsked == [file |-> "", value |-> FALSE]
NoDownload == [url |-> "", state |-> "none", attempt |-> 0, value |-> FALSE,
               counted |-> FALSE, recorded |-> FALSE]
NotLogged == [configured |-> "", calls |-> << >>]
NotNamed == [done |-> FALSE]
\* downloadImage, Logger.log and generateImageFileName are not exercised alone
noUnitCall ==
    /\ retryCount = RETRY_COUNT
    /\ download = NoDownload
    /\ logCall = NotLogged
    /\ nameCall = NotNamed

noCall ==
    /\ noUnitCall
    /\ text = << >>
    /\ extracted = NotExtracted
    /\ wasProcessed = NotAsked
    /\ sectionFiles = << >>
    /\ sectionInfo = << >>
    /\ sectionIndex = 0
    /\ downloadedCount = 0
    /\ skippedCount = 0
    /\ updatedCount = 0

NoOutput == [exists |-> FALSE, from |-> NoImages, local |-> {}]
NoHash == <<"none", NoImages>>
NoMapping ==
    [exists |-> FALSE, parses |-> TRUE, hasMeta |-> FALSE,
     sourceFileHash |-> NoHash, keys |-> {}]
\* a mapping.json on which JSON.parse throws
Unparseable ==
    [exists |-> TRUE, parses |-> FALSE, hasMeta |-> FALSE,
     sourceFileHash |-> NoHash, keys |-> {}]
emptyMapping == [hasMeta |-> FALSE, sourceFileHash |-> NoHash, keys |-> {}]
\* an error thrown by a download: the number of attempts its message tells
\* and the error of got() whose message it embeds, an error of got() being
\* identified by the script and the attempt that raised it
NoError == [attempts |-> 0, cause |-> <<"", 0>>]
noEntries == [n \in {} |-> [error |-> NoError, sourceFile |-> ""]]
NoLedger == [exists |-> FALSE, entries |-> noEntries]
\* the asset names listed in missing-images.json
ledger == IF missingFile.exists THEN DOMAIN missingFile.entries ELSE {}
noResults == [r \in {} |-> TRUE]

Init ==
    /\ src \in [Docs -> Contents]
    /\ out = [d \in Docs |-> NoOutput]
    /\ images = {}
    /\ mappingFile = NoMapping
    /\ missingFile = NoLedger
    /\ pc = "idle"
    /\ cur = 0
    /\ mapping = emptyMapping
    /\ usedImageFiles = {}
    /\ missingImages = noEntries
    /\ downloadPromises = << >>
    /\ downloadResults = noResults
    /\ chunk = 0
    /\ cleanedCount = 0
    /\ result = [d \in Docs |-> "none"]
    /\ netCalls = [d \in Docs |-> 0]
    /\ start = [d \in Docs |-> "new"]
    /\ out0 = out
    /\ rerun = FALSE
    /\ allHit = [d \in Docs |-> FALSE]
    /\ userActions = 0
    /\ unreadable = {}
    /\ existingMapping = "absent"
    /\ outputDir = FALSE
    /\ noCall
    /\ missing = << >>
    /\ orphaned = {}
    /\ item = 0
    /\ retryAttempt = 0

\* ------------------------------------------------------------------------
\* isFileProcessed
\* ------------------------------------------------------------------------
isFileProcessed(d) ==
    LET content == src[d]
        contentHash == calculateFileHash(content)
        hasLast == mappingFile.hasMeta
        lastProcessedHash == mappingFile.sourceFileHash
        matches == (hasLast /\ lastProcessedHash = contentHash) \/ ~hasLast
    IN  IF ~out[d].exists THEN FALSE
        ELSE IF ~mappingFile.exists THEN FALSE
        ELSE IF ~mappingFile.parses THEN FALSE
        ELSE IF hasLast /\ lastProcessedHash # contentHash THEN FALSE
        ELSE IF Len(extractImageUrls(content)) = 0 THEN matches
        ELSE IF \E n \in namesOf(content) : n \notin images THEN FALSE
        ELSE matches

\* ------------------------------------------------------------------------
\* processFolder, up to the loop over the documents
\* ------------------------------------------------------------------------
condition(d) ==
    IF ~out[d].exists THEN "new"
    ELSE IF calculateFileHash(out[d].from) # calculateFileHash(src[d]) THEN "changed"
    ELSE IF namesOf(src[d]) \subseteq images THEN "cached"
    ELSE "incomplete"

resetFix ==
    /\ missing' = << >>
    /\ orphaned' = {}
    /\ item' = 0
    /\ retryAttempt' = 0

resetPass ==
    /\ mapping' = emptyMapping
    /\ usedImageFiles' = {}
    /\ missingImages' = noEntries
    /\ downloadPromises' = << >>
    /\ downloadResults' = noResults
    /\ chunk' = 0
    /\ cleanedCount' = 0

resetGhosts ==
    /\ result' = [d \in Docs |-> "none"]
    /\ netCalls' = [d \in Docs |-> 0]
    /\ start' = [d \in Docs |-> "new"]
    /\ out0' = [d \in Docs |-> NoOutput]
    /\ rerun' = FALSE
    /\ allHit' = [d \in Docs |-> FALSE]

atRest == pc \in {"idle", "done", "exit1", "fixed", "fixExit1"}

\* log is a Logger object, not a function: the call log(...) that follows
\* the load of an existing mapping.json raises a TypeError, the call in the
\* catch block raises it again, and main's catch block ends the process
\* with exit code 1.
processFolder ==
    /\ atRest
    /\ resetPass
    /\ result' = [d \in Docs |-> "none"]
    /\ netCalls' = [d \in Docs |-> 0]
    /\ allHit' = [d \in Docs |-> FALSE]
    /\ start' = [d \in Docs |-> condition(d)]
    /\ out0' = out
    /\ rerun' = (pc = "done")
    /\ existingMapping' = IF ~mappingFile.exists THEN "absent"
                          ELSE IF mappingFile.parses THEN "loaded"
                          ELSE "unparseable"
    /\ IF mappingFile.exists
       THEN pc' = "exit1" /\ cur' = 0
       ELSE pc' = "file" /\ cur' = 1
    /\ outputDir' = TRUE
    /\ resetFix
    /\ UNCHANGED <<auxVars, unreadable, userActions, fsVars>>

\* ------------------------------------------------------------------------
\* processMarkdownFile
\* ------------------------------------------------------------------------
setMetadata(m, content) ==
    [m EXCEPT !.hasMeta = TRUE, !.sourceFileHash = calculateFileHash(content)]

written(m) ==
    [exists |-> TRUE, parses |-> TRUE, hasMeta |-> m.hasMeta,
     sourceFileHash |-> m.sourceFileHash, keys |-> m.keys]

\* readFileSync throws on the source document: the catch block of
\* processMarkdownFile returns processed: false and the loop of processFolder
\* goes on with the next document
readFailsAndAborts ==
    /\ pc = "file" /\ cur <= Len(files)
    /\ files[cur] \in unreadable
    /\ result' = [result EXCEPT ![files[cur]] = "failed"]
    /\ pc' = "exit1"
    /\ UNCHANGED <<auxVars, outputDir, fixVars, unreadable, existingMapping, userActions, cleanedCount, fsVars,
                   cur, mapping, usedImageFiles, missingImages, downloadPromises,
                   downloadResults, chunk, netCalls, start, out0, rerun, allHit>>

readFails ==
    /\ pc = "file" /\ cur <= Len(files)
    /\ files[cur] \in unreadable
    /\ result' = [result EXCEPT ![files[cur]] = "failed"]
    /\ cur' = cur + 1
    /\ UNCHANGED <<auxVars, outputDir, fixVars, unreadable, existingMapping, userActions, cleanedCount, fsVars,
                   pc, mapping, usedImageFiles, missingImages, downloadPromises,
                   downloadResults, chunk, netCalls, start, out0, rerun, allHit>>

\* the document was processed before: only its assets are recorded as used
skipFile ==
    /\ pc = "file" /\ cur <= Len(files)
    /\ LET d == files[cur] IN
        /\ d \notin unreadable
        /\ isFileProcessed(d)
        /\ usedImageFiles' = usedImageFiles \cup namesOf(src[d])
        /\ result' = [result EXCEPT ![d] = "skipped"]
    /\ cur' = cur + 1
    /\ UNCHANGED <<auxVars, outputDir, fixVars, unreadable, existingMapping, userActions, cleanedCount, fsVars, pc, mapping, missingImages, downloadPromises,
                   downloadResults, chunk, netCalls, start, out0, rerun, allHit>>

\* a document without images is copied and its hash saved to mapping.json
copyFile ==
    /\ pc = "file" /\ cur <= Len(files)
    /\ LET d == files[cur] IN
        /\ d \notin unreadable
        /\ ~isFileProcessed(d)
        /\ Len(extractImageUrls(src[d])) = 0
        /\ out' = [out EXCEPT ![d] = [exists |-> TRUE, from |-> src[d], local |-> {}]]
        /\ mapping' = setMetadata(mapping, src[d])
        /\ mappingFile' = written(mapping')
        /\ result' = [result EXCEPT ![d] = "processed"]
    /\ cur' = cur + 1
    /\ UNCHANGED <<auxVars, outputDir, fixVars, unreadable, existingMapping, userActions, cleanedCount, src, images, missingFile, pc, usedImageFiles, missingImages,
                   downloadPromises, downloadResults, chunk, netCalls, start,
                   out0, rerun, allHit>>

\* downloadImage, entry: an existing local file is a cache hit and the call
\* returns true without a request, otherwise the first got() request is made
downloadImage(url, imgs) ==
    IF generateImageFileName(url) \in imgs THEN "ok" ELSE "flight"

\* the loop over imageUrls: a reference whose file exists is a cache hit,
\* for every other reference downloadImage is called at once
RECURSIVE queueWithoutCache(_, _, _)
queueWithoutCache(urls, i, imgs) ==
    IF i > Len(urls) THEN << >>
    ELSE <<[ref |-> urls[i], attempt |-> 1, state |-> "flight", error |-> NoError]>>
             \o queueWithoutCache(urls, i + 1, imgs)

RECURSIVE queue(_, _, _)
queue(urls, i, imgs) ==
    IF i > Len(urls) THEN << >>
    ELSE LET imageExists == generateImageFileName(urls[i].url) \in imgs
             rest == queue(urls, i + 1, imgs)
         IN IF imageExists THEN rest
            ELSE <<[ref |-> urls[i], attempt |-> 1,
                    state |-> downloadImage(urls[i].url, imgs),
                    error |-> NoError]>> \o rest

cacheHits(urls, imgs) ==
    {urls[i] : i \in {j \in 1..Len(urls) : generateImageFileName(urls[j].url) \in imgs}}

startDownloadsUnrecorded ==
    /\ pc = "file" /\ cur <= Len(files)
    /\ LET d == files[cur]
           imageUrls == extractImageUrls(src[d])
       IN
        /\ d \notin unreadable
        /\ ~isFileProcessed(d)
        /\ Len(imageUrls) > 0
        /\ usedImageFiles' = usedImageFiles
        /\ mapping' = [mapping EXCEPT !.keys = @ \cup namesOf(src[d])]
        /\ downloadResults' = [r \in cacheHits(imageUrls, images) |-> TRUE]
        /\ downloadPromises' = queue(imageUrls, 1, images)
        /\ netCalls' = [netCalls EXCEPT ![d] = Cardinality(
               {i \in 1..Len(downloadPromises') : downloadPromises'[i].state = "flight"})]
        /\ allHit' = [allHit EXCEPT ![d] = namesOf(src[d]) \subseteq images]
    /\ pc' = "await"
    /\ chunk' = 1
    /\ UNCHANGED <<auxVars, outputDir, fixVars, unreadable, existingMapping, userActions, cleanedCount, fsVars, cur, missingImages, result, start, out0, rerun>>

startDownloads ==
    /\ pc = "file" /\ cur <= Len(files)
    /\ LET d == files[cur]
           imageUrls == extractImageUrls(src[d])
       IN
        /\ d \notin unreadable
        /\ ~isFileProcessed(d)
        /\ Len(imageUrls) > 0
        /\ usedImageFiles' = usedImageFiles \cup namesOf(src[d])
        /\ mapping' = [mapping EXCEPT !.keys = @ \cup namesOf(src[d])]
        /\ downloadResults' = [r \in cacheHits(imageUrls, images) |-> TRUE]
        /\ downloadPromises' = queue(imageUrls, 1, images)
        /\ netCalls' = [netCalls EXCEPT ![d] = Cardinality(
               {i \in 1..Len(downloadPromises') : downloadPromises'[i].state = "flight"})]
        /\ allHit' = [allHit EXCEPT ![d] = namesOf(src[d]) \subseteq images]
    /\ pc' = "await"
    /\ chunk' = 1
    /\ UNCHANGED <<auxVars, outputDir, fixVars, unreadable, existingMapping, userActions, cleanedCount, fsVars, cur, missingImages, result, start, out0, rerun>>

put(m, k, v) == [x \in DOMAIN m \cup {k} |-> IF x = k THEN v ELSE m[x]]

\* got() answers and the body is written to the local path
attemptSucceeds(i) ==
    /\ pc = "await"
    /\ downloadPromises[i].state = "flight"
    /\ images' = images \cup {generateImageFileName(downloadPromises[i].ref.url)}
    /\ downloadPromises' = [downloadPromises EXCEPT ![i].state = "ok"]
    /\ downloadResults' = put(downloadResults, downloadPromises[i].ref, TRUE)
    /\ UNCHANGED <<auxVars, outputDir, fixVars, unreadable, existingMapping, userActions, cleanedCount, src, out, mappingFile, missingFile, pc, cur, mapping,
                   usedImageFiles, missingImages, chunk, ghostVars>>

\* the error thrown after the last attempt: "下载失败 (尝试 N 次): " followed by
\* the message of the error caught in that attempt
rejectionOfFirst(attempt) ==
    [attempts |-> attempt, cause |-> <<"process-images", 1>>]

rejection(attempt) ==
    [attempts |-> attempt, cause |-> <<"process-images", attempt>>]

\* got() fails: the next attempt follows, the last failure rejects the call
attemptFailsAndRestarts(i) ==
    /\ pc = "await"
    /\ downloadPromises[i].state = "flight"
    /\ downloadPromises' = [downloadPromises EXCEPT
           ![i].attempt = IF @ = RETRY_COUNT THEN 1 ELSE @ + 1]
    /\ UNCHANGED <<missingImages, downloadResults, netCalls>>
    /\ UNCHANGED <<auxVars, outputDir, fixVars, unreadable, existingMapping, userActions, cleanedCount, fsVars, pc, cur, mapping, usedImageFiles, chunk,
                   result, start, out0, rerun, allHit>>

attemptFails(i) ==
    /\ pc = "await"
    /\ downloadPromises[i].state = "flight"
    /\ IF downloadPromises[i].attempt = RETRY_COUNT
       THEN /\ downloadPromises' = [downloadPromises EXCEPT
                   ![i].state = "failed",
                   ![i].error = rejection(downloadPromises[i].attempt)]
            /\ missingImages' = put(missingImages,
                   generateImageFileName(downloadPromises[i].ref.url),
                   [error |-> rejection(downloadPromises[i].attempt),
                    sourceFile |-> files[cur]])
            /\ downloadResults' = put(downloadResults, downloadPromises[i].ref, FALSE)
            /\ UNCHANGED netCalls
       ELSE /\ downloadPromises' = [downloadPromises EXCEPT ![i].attempt = @ + 1]
            /\ netCalls' = [netCalls EXCEPT ![files[cur]] = @ + 1]
            /\ UNCHANGED <<missingImages, downloadResults>>
    /\ UNCHANGED <<auxVars, outputDir, fixVars, unreadable, existingMapping, userActions, cleanedCount, fsVars, pc, cur, mapping, usedImageFiles, chunk,
                   result, start, out0, rerun, allHit>>

settled(i) == downloadPromises[i].state \in {"ok", "failed"}

\* await Promise.all(chunk)
awaitChunk ==
    /\ pc = "await"
    /\ chunk <= Len(downloadPromises)
    /\ \A i \in chunk..(chunk + MAX_CONCURRENT - 1) :
           i <= Len(downloadPromises) => settled(i)
    /\ chunk' = chunk + MAX_CONCURRENT
    /\ UNCHANGED <<auxVars, outputDir, fixVars, unreadable, existingMapping, userActions, cleanedCount, fsVars, pc, cur, mapping, usedImageFiles, missingImages,
                   downloadPromises, downloadResults, ghostVars>>

\* newContent.replace(fullMatch, ...) rewrites the first occurrence of the
\* substring that is still in the text
firstOccurrence(content, fullMatch, local) ==
    LET open == {p \in 1..Len(content) : content[p] = fullMatch /\ p \notin local}
    IN  IF open = {} THEN {} ELSE {CHOOSE p \in open : \A q \in open : p <= q}

RECURSIVE replaceLinksAlways(_, _, _, _, _)
replaceLinksAlways(content, urls, i, results, local) ==
    IF i > Len(urls) THEN local
    ELSE replaceLinksAlways(content, urls, i + 1, results,
                            local \cup firstOccurrence(content, urls[i], local))

RECURSIVE replaceLinks(_, _, _, _, _)
replaceLinks(content, urls, i, results, local) ==
    IF i > Len(urls) THEN local
    ELSE LET fullMatch == urls[i]
             success == fullMatch \in DOMAIN results /\ results[fullMatch]
         IN IF success
            THEN replaceLinks(content, urls, i + 1, results,
                              local \cup firstOccurrence(content, fullMatch, local))
            ELSE replaceLinks(content, urls, i + 1, results, local)

writeOutput ==
    /\ pc = "await"
    /\ chunk > Len(downloadPromises)
    /\ LET d == files[cur]
           imageUrls == extractImageUrls(src[d])
       IN
        /\ out' = [out EXCEPT ![d] =
                     [exists |-> TRUE, from |-> src[d],
                      local |-> replaceLinks(src[d], imageUrls, 1, downloadResults, {})]]
        /\ mapping' = setMetadata(mapping, src[d])
        /\ result' = [result EXCEPT ![d] = "processed"]
    /\ pc' = "file"
    /\ cur' = cur + 1
    /\ downloadPromises' = << >>
    /\ downloadResults' = noResults
    /\ chunk' = 0
    /\ UNCHANGED <<auxVars, outputDir, fixVars, unreadable, existingMapping, userActions, cleanedCount, src, images, mappingFile, missingFile, usedImageFiles,
                   missingImages, netCalls, start, out0, rerun, allHit>>

\* ------------------------------------------------------------------------
\* processFolder, after the loop: cleanup, mapping.json, missing-images.json
\* ------------------------------------------------------------------------
keptAllFiles(allImageFiles, used) == allImageFiles

\* the files of the images directory that the cleanup leaves
keptFiles(allImageFiles, used) == allImageFiles \cap used

cleanedMappingInverted(m, used) ==
    [exists |-> TRUE, parses |-> TRUE, hasMeta |-> m.hasMeta,
     sourceFileHash |-> m.sourceFileHash, keys |-> used \ m.keys]

cleanedMapping(m, used) ==
    [exists |-> TRUE, parses |-> TRUE, hasMeta |-> m.hasMeta,
     sourceFileHash |-> m.sourceFileHash, keys |-> used \cap m.keys]

cleanupWithoutMetadata ==
    /\ pc = "file" /\ cur > Len(files)
    /\ images' = keptFiles(images, usedImageFiles)
    /\ cleanedCount' = Cardinality(images \ images')
    /\ mappingFile' = cleanedMapping(emptyMapping, usedImageFiles \cap mapping.keys)
    /\ missingFile' = IF DOMAIN missingImages # {}
                      THEN [exists |-> TRUE, entries |-> missingImages]
                      ELSE NoLedger
    /\ pc' = "done"
    /\ UNCHANGED <<auxVars, outputDir, fixVars, unreadable, existingMapping, userActions, src, out, cur, mapping, usedImageFiles, missingImages,
                   downloadPromises, downloadResults, chunk, ghostVars>>

cleanup ==
    /\ pc = "file" /\ cur > Len(files)
    /\ images' = keptFiles(images, usedImageFiles)
    /\ cleanedCount' = Cardinality(images \ images')
    /\ mappingFile' = cleanedMapping(mapping, usedImageFiles)
    /\ missingFile' = IF DOMAIN missingImages # {}
                      THEN [exists |-> TRUE, entries |-> missingImages]
                      ELSE NoLedger
    /\ pc' = "done"
    /\ UNCHANGED <<auxVars, outputDir, fixVars, unreadable, existingMapping, userActions, src, out, cur, mapping, usedImageFiles, missingImages,
                   downloadPromises, downloadResults, chunk, ghostVars>>

\* ------------------------------------------------------------------------
\* The user, between two runs
\* ------------------------------------------------------------------------
rest ==
    /\ userActions < MaxUserActions
    /\ userActions' = userActions + 1
    /\ pc' = "idle"
    /\ cur' = 0
    /\ resetPass
    /\ resetGhosts
    /\ existingMapping' = "absent"
    /\ resetFix
    /\ UNCHANGED <<auxVars, unreadable>>

editDocument(d, c) ==
    /\ atRest
    /\ c # src[d]
    /\ src' = [src EXCEPT ![d] = c]
    /\ rest
    /\ UNCHANGED outputDir
    /\ UNCHANGED <<out, images, mappingFile, missingFile>>

removeImage(n) ==
    /\ atRest
    /\ n \in images
    /\ images' = images \ {n}
    /\ rest
    /\ UNCHANGED outputDir
    /\ UNCHANGED <<src, out, mappingFile, missingFile>>

addImage(n) ==
    /\ atRest
    /\ n \notin images
    /\ images' = images \cup {n}
    /\ rest
    /\ outputDir' = TRUE
    /\ UNCHANGED <<src, out, mappingFile, missingFile>>

removeMapping ==
    /\ atRest
    /\ mappingFile.exists
    /\ mappingFile' = NoMapping
    /\ rest
    /\ UNCHANGED outputDir
    /\ UNCHANGED <<src, out, images, missingFile>>

\* mapping.json is damaged (truncated, overwritten) between two runs
corruptMapping ==
    /\ atRest
    /\ mappingFile.exists /\ mappingFile.parses
    /\ mappingFile' = Unparseable
    /\ rest
    /\ UNCHANGED outputDir
    /\ UNCHANGED <<src, out, images, missingFile>>

Next ==
    \/ processFolder
    \/ skipFile
    \/ copyFile
    \/ startDownloads
    \/ \E i \in 1..Len(downloadPromises) : attemptSucceeds(i)
    \/ \E i \in 1..Len(downloadPromises) : attemptFails(i)
    \/ awaitChunk
    \/ writeOutput
    \/ cleanup
    \/ \E d \in Docs, c \in Contents : editDocument(d, c)
    \/ \E n \in images : removeImage(n)
    \/ \E n \in Names \cup {StrayFile} : addImage(n)
    \/ removeMapping

Spec == Init /\ [][Next]_vars

\* ------------------------------------------------------------------------
\* The run with faults of the environment: documents that cannot be read
\* and a damaged mapping.json
\* ------------------------------------------------------------------------
Unreadable == {{}, {"b.md"}}

InitFaults ==
    /\ src \in [Docs -> Contents]
    /\ out = [d \in Docs |-> NoOutput]
    /\ images = {}
    /\ mappingFile = NoMapping
    /\ missingFile = NoLedger
    /\ pc = "idle"
    /\ cur = 0
    /\ mapping = emptyMapping
    /\ usedImageFiles = {}
    /\ missingImages = noEntries
    /\ downloadPromises = << >>
    /\ downloadResults = noResults
    /\ chunk = 0
    /\ cleanedCount = 0
    /\ result = [d \in Docs |-> "none"]
    /\ netCalls = [d \in Docs |-> 0]
    /\ start = [d \in Docs |-> "new"]
    /\ out0 = out
    /\ rerun = FALSE
    /\ allHit = [d \in Docs |-> FALSE]
    /\ userActions = 0
    /\ unreadable \in Unreadable
    /\ existingMapping = "absent"
    /\ outputDir = FALSE
    /\ noCall
    /\ missing = << >>
    /\ orphaned = {}
    /\ item = 0
    /\ retryAttempt = 0

\* a source document can no longer be read (removed rights, a damaged
\* file) between two runs
documentLost ==
    /\ atRest
    /\ unreadable = {}
    /\ unreadable' = {"b.md"}
    /\ userActions < MaxUserActions
    /\ userActions' = userActions + 1
    /\ pc' = "idle"
    /\ cur' = 0
    /\ resetPass
    /\ resetGhosts
    /\ existingMapping' = "absent"
    /\ resetFix
    /\ UNCHANGED <<auxVars, outputDir, fsVars>>

NextFaults ==
    \/ Next
    \/ readFails
    \/ corruptMapping
    \/ documentLost

SpecFaults == InitFaults /\ [][NextFaults]_vars

\* ------------------------------------------------------------------------
\* fix-missing-images.js: the recovery run
\* ------------------------------------------------------------------------
\* the order in which the keys of an object are visited
keyOrder == <<"5f1d7a3c.jpg", "c09b22e4.jpg">>

RECURSIVE items(_, _, _)
items(names, origin, i) ==
    IF i > Len(keyOrder) THEN << >>
    ELSE (IF keyOrder[i] \in names
          THEN <<[fileName |-> keyOrder[i], origin |-> origin]>>
          ELSE << >>) \o items(names, origin, i + 1)

\* scanForMissingImages: the entries of missing-images.json without a file,
\* then the keys of mapping.json without a file that are not yet listed;
\* the files of the images directory that are no key of mapping.json
scanMissingAll ==
    LET fromLedger == ledger
        fromMapping == IF mappingFile.exists /\ mappingFile.parses
                       THEN {n \in mappingFile.keys :
                                n \notin images /\ n \notin fromLedger}
                       ELSE {}
    IN  items(fromLedger, "ledger", 1) \o items(fromMapping, "mapping", 1)

scanMissing ==
    LET fromLedger == {n \in ledger : n \notin images}
        fromMapping == IF mappingFile.exists /\ mappingFile.parses
                       THEN {n \in mappingFile.keys :
                                n \notin images /\ n \notin fromLedger}
                       ELSE {}
    IN  items(fromLedger, "ledger", 1) \o items(fromMapping, "mapping", 1)

scanOrphaned ==
    IF ~outputDir THEN {}
    ELSE IF ~mappingFile.exists THEN images
    ELSE IF ~mappingFile.parses THEN {}
    ELSE {f \in images : f \notin mappingFile.keys}

\* main and processFolder up to the first retry: without the output
\* directory the process exits with status 1, without findings the folder is
\* left as it is, otherwise missing-images.json is loaded. Starting the
\* script is one of the things the user does between two runs.
fixMain ==
    /\ atRest
    /\ userActions < MaxUserActions
    /\ userActions' = userActions + 1
    /\ mapping' = emptyMapping
    /\ usedImageFiles' = {}
    /\ downloadPromises' = << >>
    /\ downloadResults' = noResults
    /\ chunk' = 0
    /\ cleanedCount' = 0
    /\ cur' = 0
    /\ resetGhosts
    /\ existingMapping' = "absent"
    /\ IF ~outputDir
       THEN /\ pc' = "fixExit1"
            /\ resetFix
            /\ missingImages' = noEntries
       ELSE /\ missing' = scanMissing
            /\ orphaned' = scanOrphaned
            /\ IF missing' = << >> /\ orphaned' = {}
               THEN /\ pc' = "fixed"
                    /\ item' = 0
                    /\ retryAttempt' = 0
                    /\ missingImages' = noEntries
               ELSE /\ pc' = "retry"
                    /\ item' = 1
                    /\ retryAttempt' = IF missing' = << >> THEN 0 ELSE 1
                    /\ missingImages' = IF missingFile.exists
                                        THEN missingFile.entries
                                        ELSE noEntries
    /\ UNCHANGED <<auxVars, outputDir, unreadable, fsVars>>

\* tryDownloadImage: the error thrown after the last attempt
retryRejection(n) ==
    [attempts |-> n, cause |-> <<"fix-missing-images", n>>]

without(m, k) == [x \in DOMAIN m \ {k} |-> m[x]]

nextItem ==
    /\ item' = item + 1
    /\ retryAttempt' = IF item + 1 <= Len(missing) THEN 1 ELSE 0

\* got() answers: the file is written and the entry leaves the record
deleteEntry(m, k) == without(m, k)

retrySucceeds ==
    /\ pc = "retry" /\ item <= Len(missing)
    /\ images' = images \cup {missing[item].fileName}
    /\ missingImages' = deleteEntry(missingImages, missing[item].fileName)
    /\ nextItem
    /\ UNCHANGED <<auxVars, outputDir, unreadable, userActions, src, out, mappingFile,
                   missingFile, pc, cur, mapping, usedImageFiles, downloadPromises,
                   downloadResults, chunk, cleanedCount, ghostVars,
                   existingMapping, missing, orphaned>>

\* got() fails: the next attempt follows; after the last one the error is
\* written into the entry of the asset, if it has one
updateErrorNever(m, k, error) == m

updateError(m, k, error) ==
    IF k \in DOMAIN m THEN [m EXCEPT ![k].error = error] ELSE m

retryFails ==
    /\ pc = "retry" /\ item <= Len(missing)
    /\ IF retryAttempt = RETRY_COUNT
       THEN /\ missingImages' = updateError(missingImages, missing[item].fileName,
                                            retryRejection(retryAttempt))
            /\ nextItem
       ELSE /\ retryAttempt' = retryAttempt + 1
            /\ UNCHANGED <<missingImages, item>>
    /\ UNCHANGED <<auxVars, outputDir, unreadable, userActions, fsVars, pc, cur, mapping,
                   usedImageFiles, downloadPromises, downloadResults, chunk,
                   cleanedCount, ghostVars, existingMapping, missing, orphaned>>

\* updateMissingImagesFile: an empty record deletes missing-images.json,
\* any other is written to it
updateMissingImagesFileAndOrphans ==
    /\ pc = "retry" /\ item > Len(missing)
    /\ missingFile' = IF DOMAIN missingImages = {}
                      THEN NoLedger
                      ELSE [exists |-> TRUE, entries |-> missingImages]
    /\ images' = images \ orphaned
    /\ pc' = "fixed"
    /\ UNCHANGED <<auxVars, outputDir, unreadable, userActions, src, out,
                   mappingFile, cur, mapping, usedImageFiles, missingImages,
                   downloadPromises, downloadResults, chunk, cleanedCount,
                   ghostVars, existingMapping, fixVars>>

updateMissingImagesFile ==
    /\ pc = "retry" /\ item > Len(missing)
    /\ missingFile' = IF DOMAIN missingImages = {}
                      THEN NoLedger
                      ELSE [exists |-> TRUE, entries |-> missingImages]
    /\ pc' = "fixed"
    /\ UNCHANGED <<auxVars, outputDir, unreadable, userActions, src, out, images,
                   mappingFile, cur, mapping, usedImageFiles, missingImages,
                   downloadPromises, downloadResults, chunk, cleanedCount,
                   ghostVars, existingMapping, fixVars>>

NextFix ==
    \/ Next
    \/ fixMain
    \/ retrySucceeds
    \/ retryFails
    \/ updateMissingImagesFile

SpecFix == Init /\ [][NextFix]_vars

\* ------------------------------------------------------------------------
\* extractImageUrls on its own: called once with a content
\* ------------------------------------------------------------------------
syncVars == <<fsVars, pc, passVars, ghostVars, userActions, unreadable,
              existingMapping, outputDir, fixVars>>

\* no run of process-images.js or fix-missing-images.js is under way
noPass ==
    /\ pc = "idle"
    /\ cur = 0
    /\ mapping = emptyMapping
    /\ usedImageFiles = {}
    /\ missingImages = noEntries
    /\ downloadPromises = << >>
    /\ downloadResults = noResults
    /\ chunk = 0
    /\ cleanedCount = 0
    /\ result = [d \in Docs |-> "none"]
    /\ netCalls = [d \in Docs |-> 0]
    /\ start = [d \in Docs |-> "new"]
    /\ out0 = out
    /\ rerun = FALSE
    /\ allHit = [d \in Docs |-> FALSE]
    /\ userActions = 0
    /\ unreadable = {}
    /\ existingMapping = "absent"
    /\ outputDir = FALSE
    /\ missing = << >>
    /\ orphaned = {}
    /\ item = 0
    /\ retryAttempt = 0

\* no run of process-images.js or fix-missing-images.js has taken place
noRun ==
    /\ out = [d \in Docs |-> NoOutput]
    /\ images = {}
    /\ mappingFile = NoMapping
    /\ missingFile = NoLedger
    /\ noPass

Alts == {"a", "b"}
Refs == {md(u, a) : u \in URLs, a \in Alts} \cup {html(u, a) : u \in URLs, a \in Alts}
Texts == UNION {[1..n -> Refs] : n \in 0..MaxRefs}

InitExtract ==
    /\ noRun
    /\ src = [d \in Docs |-> NoImages]
    /\ text \in Texts
    /\ extracted = NotExtracted
    /\ wasProcessed = NotAsked
    /\ noUnitCall
    /\ sectionFiles = << >>
    /\ sectionInfo = << >>
    /\ sectionIndex = 0
    /\ downloadedCount = 0
    /\ skippedCount = 0
    /\ updatedCount = 0

extract ==
    /\ ~extracted.done
    /\ extracted' = [done |-> TRUE, urls |-> extractImageUrls(text)]
    /\ UNCHANGED <<syncVars, text, wasProcessed, batchVars, unitVars>>

SpecExtract == InitExtract /\ [][extract]_vars

\* ------------------------------------------------------------------------
\* isFileProcessed on its own: called once for a document of a collection
\* ------------------------------------------------------------------------
\* the output document of a content all of whose downloads succeeded
outputOf(content) ==
    LET imageUrls == extractImageUrls(content)
        results == [r \in {imageUrls[i] : i \in 1..Len(imageUrls)} |-> TRUE]
    IN  [exists |-> TRUE, from |-> content,
         local |-> replaceLinks(content, imageUrls, 1, results, {})]

\* the mapping.json files isFileProcessed can meet: none, one JSON.parse
\* rejects, one without _metadata.sourceFileHash, one with the hash of a content
MappingFiles(keys) ==
    {NoMapping, Unparseable}
    \cup {[exists |-> TRUE, parses |-> TRUE, hasMeta |-> FALSE,
           sourceFileHash |-> NoHash, keys |-> keys]}
    \cup {[exists |-> TRUE, parses |-> TRUE, hasMeta |-> TRUE,
           sourceFileHash |-> calculateFileHash(c), keys |-> keys] : c \in Contents}

InitSkip ==
    /\ src \in [Docs -> Contents]
    /\ out \in {o \in [Docs -> {NoOutput} \cup {outputOf(c) : c \in Contents}] :
                 \A d \in Docs : o[d].exists => o[d].from = src[d]}
    /\ images \in SUBSET Names
    /\ mappingFile \in MappingFiles(images)
    /\ missingFile = NoLedger
    /\ noPass
    /\ noCall

check(d) ==
    /\ wasProcessed = NotAsked
    /\ wasProcessed' = [file |-> d, value |-> isFileProcessed(d)]
    /\ UNCHANGED <<syncVars, text, extracted, batchVars, unitVars>>

NextSkip == \E d \in Docs : check(d)

SpecSkip == InitSkip /\ [][NextSkip]_vars

\* ------------------------------------------------------------------------
\* batch-download.js: downloadBook, the loop over the finished sections
\* ------------------------------------------------------------------------
\* markdown_show of a section as the server returns it
SectionContents == {"", "v1", "v2"}
NoSectionFile == [exists |-> FALSE, content |-> ""]
sectionFile(content) == [exists |-> TRUE, content |-> content]
SectionFiles == {NoSectionFile} \cup {sectionFile(c) : c \in SectionContents}
\* getSection: it throws, or it returns the content of the section
SectionInfos ==
    {[ok |-> FALSE, content |-> ""]}
    \cup {[ok |-> TRUE, content |-> c] : c \in SectionContents}

\* reason: "missing" is "文件不存在", "updated" is "内容已更新", "same" is
\* "内容相同"; an existing section file can be read
shouldDownloadFileIfAbsent(file, newContent) ==
    IF ~file.exists THEN [shouldDownload |-> TRUE, reason |-> "missing"]
    ELSE [shouldDownload |-> FALSE, reason |-> "same"]

shouldDownloadFile(file, newContent) ==
    IF ~file.exists THEN [shouldDownload |-> TRUE, reason |-> "missing"]
    ELSE LET existingHash == calculateFileHash(file.content)
             newHash == calculateFileHash(newContent)
         IN  IF existingHash # newHash
             THEN [shouldDownload |-> TRUE, reason |-> "updated"]
             ELSE [shouldDownload |-> FALSE, reason |-> "same"]

finishSections == 1..Len(sectionInfo)

InitBatch ==
    /\ \E n \in 0..MaxSections :
          /\ sectionFiles \in [1..n -> SectionFiles]
          /\ sectionInfo \in [1..n -> SectionInfos]
    /\ sectionIndex = 1
    /\ downloadedCount = 0
    /\ skippedCount = 0
    /\ updatedCount = 0
    /\ src = [d \in Docs |-> NoImages]
    /\ noRun
    /\ text = << >>
    /\ extracted = NotExtracted
    /\ wasProcessed = NotAsked
    /\ noUnitCall

\* getSection throws: the catch of the loop body logs and the loop goes on
sectionFails ==
    /\ sectionIndex \in finishSections
    /\ ~sectionInfo[sectionIndex].ok
    /\ sectionIndex' = sectionIndex + 1
    /\ UNCHANGED <<sectionFiles, sectionInfo, downloadedCount, skippedCount,
                   updatedCount>>
    /\ UNCHANGED <<syncVars, text, extracted, wasProcessed, unitVars>>

sectionSkipped ==
    /\ sectionIndex \in finishSections
    /\ sectionInfo[sectionIndex].ok
    /\ ~shouldDownloadFile(sectionFiles[sectionIndex],
                           sectionInfo[sectionIndex].content).shouldDownload
    /\ skippedCount' = skippedCount + 1
    /\ sectionIndex' = sectionIndex + 1
    /\ UNCHANGED <<sectionFiles, sectionInfo, downloadedCount, updatedCount>>
    /\ UNCHANGED <<syncVars, text, extracted, wasProcessed, unitVars>>

sectionWritten ==
    /\ sectionIndex \in finishSections
    /\ sectionInfo[sectionIndex].ok
    /\ LET file == sectionFiles[sectionIndex]
           content == sectionInfo[sectionIndex].content
           decision == shouldDownloadFile(file, content)
       IN  /\ decision.shouldDownload
           /\ updatedCount' = IF file.exists /\ decision.reason = "updated"
                              THEN updatedCount + 1 ELSE updatedCount
           /\ sectionFiles' = [sectionFiles EXCEPT ![sectionIndex] = sectionFile(content)]
    /\ downloadedCount' = downloadedCount + 1
    /\ sectionIndex' = sectionIndex + 1
    /\ UNCHANGED <<sectionInfo, skippedCount>>
    /\ UNCHANGED <<syncVars, text, extracted, wasProcessed, unitVars>>

NextBatch == sectionFails \/ sectionSkipped \/ sectionWritten

SpecBatch == InitBatch /\ [][NextBatch]_vars

\* ------------------------------------------------------------------------
\* downloadImage on its own, under every retry count the configuration gives
\* ------------------------------------------------------------------------
\* process.env.RETRY_COUNT: "" stands for a variable that is unset or empty
EnvRetryCount == {"", "0", "1", "2"}
parseInt(v) ==
    CASE v = "0" -> 0
      [] v = "1" -> 1
      [] v = "2" -> 2
\* defaultConfig.network.retryCount is 3; a non-empty variable overrides it
loadConfigFromEnv(v) == IF v = "" THEN 3 ELSE parseInt(v)

unitOthers == <<text, extracted, wasProcessed, batchVars>>

InitDownload ==
    /\ src = [d \in Docs |-> NoImages]
    /\ out = [d \in Docs |-> NoOutput]
    /\ images \in SUBSET Names
    /\ mappingFile = NoMapping
    /\ missingFile = NoLedger
    /\ noPass
    /\ text = << >>
    /\ extracted = NotExtracted
    /\ wasProcessed = NotAsked
    /\ sectionFiles = << >>
    /\ sectionInfo = << >>
    /\ sectionIndex = 0
    /\ downloadedCount = 0
    /\ skippedCount = 0
    /\ updatedCount = 0
    /\ retryCount \in {loadConfigFromEnv(v) : v \in EnvRetryCount}
    /\ download = NoDownload
    /\ logCall = NotLogged
    /\ nameCall = NotNamed

\* downloadImage is called: an existing file makes it return true, otherwise
\* the loop makes its first request when 1 <= RETRY_COUNT, and with no
\* iteration the function reaches its last line and returns false
callDownloadImage(url) ==
    /\ download.state = "none"
    /\ download' =
           IF generateImageFileName(url) \in images
           THEN [download EXCEPT !.url = url, !.state = "returned", !.value = TRUE]
           ELSE IF 1 <= retryCount
           THEN [download EXCEPT !.url = url, !.state = "flight", !.attempt = 1]
           ELSE [download EXCEPT !.url = url, !.state = "returned", !.value = FALSE]
    /\ UNCHANGED <<syncVars, unitOthers, retryCount, logCall, nameCall>>

\* got() answers: the body is written to the local path and true is returned
requestAnswered ==
    /\ download.state = "flight"
    /\ images' = images \cup {generateImageFileName(download.url)}
    /\ download' = [download EXCEPT !.state = "returned", !.value = TRUE]
    /\ UNCHANGED <<src, out, mappingFile, missingFile, pc, passVars, ghostVars,
                   userActions, unreadable, existingMapping, outputDir, fixVars>>
    /\ UNCHANGED <<unitOthers, retryCount, logCall, nameCall>>

\* got() throws or times out: the last attempt throws, the others retry
requestFailed ==
    /\ download.state = "flight"
    /\ download' =
           IF download.attempt = retryCount
           THEN [download EXCEPT !.state = "thrown"]
           ELSE [download EXCEPT !.attempt = @ + 1]
    /\ UNCHANGED <<syncVars, unitOthers, retryCount, logCall, nameCall>>

\* processMarkdownFile's .then: whatever the value, the asset is counted
thenCallback ==
    /\ download.state = "returned"
    /\ download' = [download EXCEPT !.state = "handled", !.counted = TRUE]
    /\ UNCHANGED <<syncVars, unitOthers, retryCount, logCall, nameCall>>

\* processMarkdownFile's .catch: the asset is recorded in missingImages
catchCallback ==
    /\ download.state = "thrown"
    /\ download' = [download EXCEPT !.state = "handled", !.recorded = TRUE]
    /\ UNCHANGED <<syncVars, unitOthers, retryCount, logCall, nameCall>>

NextDownload ==
    \/ \E url \in URLs : callDownloadImage(url)
    \/ requestAnswered
    \/ requestFailed
    \/ thenCallback
    \/ catchCallback

SpecDownload == InitDownload /\ [][NextDownload]_vars

\* ------------------------------------------------------------------------
\* utils.js: generateImageFileName on its own
\* ------------------------------------------------------------------------
\* A URL is given by the last segment of its path, as a sequence of
\* characters, and by the extension the pattern \.(jpg|...|bmp)(\?|#|$)
\* finds in the whole URL string ("" when it finds none).
Chars == {"p", ".", ":"}
Segments == UNION {[1..n -> Chars] : n \in 0..MaxSegment}
ImageUrls == {[segment |-> g, sniffed |-> e] : g \in Segments, e \in {"", "png"}}

\* the names imported at the head of utils.js: got, fse, crypto, config
utilsImports == {"got", "fse", "crypto", "config"}

includes(fileName, c) == \E i \in 1..Len(fileName) : fileName[i] = c
\* fileName.replace(/[<>:"/\\|?*]/g, "_")
replaceForbidden(fileName) ==
    [i \in 1..Len(fileName) |-> IF fileName[i] = ":" THEN "_" ELSE fileName[i]]

\* md5(url) cut to 8 hex digits, followed by "." and the extension
hashName(url, ext) == [hash |-> TRUE, of |-> url, text |-> << >>, ext |-> ext]
segmentName(url, fileName) == [hash |-> FALSE, of |-> url, text |-> fileName, ext |-> ""]

\* path.basename is evaluated inside the try block: "path" is not among the
\* imports, the reference raises and the catch block answers
fileNameOf(url) ==
    IF "path" \notin utilsImports
    THEN hashName(url, "jpg")
    ELSE LET fileName == url.segment
         IN  IF fileName = << >> \/ ~includes(fileName, ".")
             THEN hashName(url, IF url.sniffed # "" THEN url.sniffed ELSE "jpg")
             ELSE segmentName(url, replaceForbidden(fileName))

InitName ==
    /\ src = [d \in Docs |-> NoImages]
    /\ noRun
    /\ text = << >>
    /\ extracted = NotExtracted
    /\ wasProcessed = NotAsked
    /\ sectionFiles = << >>
    /\ sectionInfo = << >>
    /\ sectionIndex = 0
    /\ downloadedCount = 0
    /\ skippedCount = 0
    /\ updatedCount = 0
    /\ retryCount = RETRY_COUNT
    /\ download = NoDownload
    /\ logCall = NotLogged
    /\ nameCall \in {[done |-> FALSE, url |-> u] : u \in ImageUrls}

callGenerateImageFileName ==
    /\ ~nameCall.done
    /\ nameCall' = [done |-> TRUE, url |-> nameCall.url,
                    fileName |-> fileNameOf(nameCall.url)]
    /\ UNCHANGED <<syncVars, unitOthers, retryCount, download, logCall>>

SpecName == InitName /\ [][callGenerateImageFileName]_vars

\* ------------------------------------------------------------------------
\* lib/logger.js: Logger.log on its own
\* ------------------------------------------------------------------------
LOG_LEVELS == [DEBUG |-> 0, INFO |-> 1, WARN |-> 2, ERROR |-> 3]
\* process.env.LOG_LEVEL: "" stands for a variable that is unset or empty,
\* "debug" for a value that is no key of LOG_LEVELS
EnvLogLevel == {"", "DEBUG", "INFO", "WARN", "ERROR", "debug"}
\* the level a caller passes to log: debug(), info(), warn() and error()
\* pass the four keys, log() can be passed anything
MessageLevels == {"DEBUG", "INFO", "WARN", "ERROR", "TRACE"}

\* config.logging.logLevel: process.env.LOG_LEVEL || "INFO"
logLevel(v) == IF v = "" THEN "INFO" ELSE v

\* LOG_LEVELS[config.logging.logLevel] || LOG_LEVELS.INFO: an unknown key
\* gives undefined and DEBUG gives 0, both are falsy
currentLogLevel(v) ==
    IF logLevel(v) \in DOMAIN LOG_LEVELS /\ LOG_LEVELS[logLevel(v)] # 0
    THEN LOG_LEVELS[logLevel(v)]
    ELSE LOG_LEVELS["INFO"]

emits(v, level) ==
    IF level \notin DOMAIN LOG_LEVELS THEN FALSE
    ELSE IF LOG_LEVELS[level] < currentLogLevel(v) THEN FALSE
    ELSE TRUE

InitLog ==
    /\ src = [d \in Docs |-> NoImages]
    /\ noRun
    /\ text = << >>
    /\ extracted = NotExtracted
    /\ wasProcessed = NotAsked
    /\ sectionFiles = << >>
    /\ sectionInfo = << >>
    /\ sectionIndex = 0
    /\ downloadedCount = 0
    /\ skippedCount = 0
    /\ updatedCount = 0
    /\ retryCount = RETRY_COUNT
    /\ download = NoDownload
    /\ logCall \in {[configured |-> v, calls |-> << >>] : v \in EnvLogLevel}
    /\ nameCall = NotNamed

log(level) ==
    /\ Len(logCall.calls) < MaxLogCalls
    /\ logCall' = [logCall EXCEPT !.calls =
           Append(@, [level |-> level, emitted |-> emits(logCall.configured, level)])]
    /\ UNCHANGED <<syncVars, unitOthers, retryCount, download, nameCall>>

NextLog == \E level \in MessageLevels : log(level)

SpecLog == InitLog /\ [][NextLog]_vars

\* ------------------------------------------------------------------------
\* One pass of process-images.js under fair scheduling
\* ------------------------------------------------------------------------
\* The steps of a pass of process-images.js.  Every got() request carries
\* timeout: { request: TIMEOUT } and the waits between attempts are timers,
\* so a request in flight is answered or fails, and the event loop runs
\* every continuation that is ready: a pass that can take a step takes one.
passStep ==
    \/ skipFile
    \/ copyFile
    \/ startDownloads
    \/ \E i \in 1..Len(downloadPromises) : attemptSucceeds(i)
    \/ \E i \in 1..Len(downloadPromises) : attemptFails(i)
    \/ awaitChunk
    \/ writeOutput
    \/ cleanup

\* the collection before a pass: never processed, or processed by an
\* earlier pass whose mapping.json has been removed; the images directory
\* empty or holding every asset the documents reference
InitLive ==
    /\ src \in [Docs -> Contents]
    /\ out \in {[d \in Docs |-> NoOutput], [d \in Docs |-> outputOf(src[d])]}
    /\ images \in {{}, UNION {namesOf(src[d]) : d \in Docs}}
    /\ mappingFile = NoMapping
    /\ missingFile = NoLedger
    /\ noPass
    /\ noCall

NextLive == processFolder \/ passStep

SpecLive == InitLive /\ [][NextLive]_vars /\ WF_vars(passStep)

TypeOK ==
    /\ src \in [Docs -> Contents]
    /\ images \subseteq Names \cup {StrayFile}
    /\ pc \in {"idle", "file", "await", "done", "exit1", "retry", "fixed", "fixExit1"}
    /\ cur \in 0..(Len(files) + 1)
    /\ usedImageFiles \subseteq Names
    /\ DOMAIN missingImages \subseteq Names
    /\ result \in [Docs -> {"none", "skipped", "processed", "failed"}]
    /\ unreadable \subseteq Docs
    /\ existingMapping \in {"absent", "loaded", "unparseable"}
    /\ outputDir \in BOOLEAN
    /\ orphaned \subseteq Names \cup {StrayFile}
    /\ item \in 0..(Len(missing) + 1)
    /\ retryAttempt \in 0..RETRY_COUNT

\* ------------------------------------------------------------------------
\* Properties
\* ------------------------------------------------------------------------
passEnded == pc \in {"done", "exit1"}

nameAt(content, p) == generateImageFileName(content[p].url)

referenced == UNION {namesOf(src[d]) : d \in Docs}

\* C1: a run that directly follows a completed run, on an unchanged document
\* whose assets are all on disk, skips the document, makes no request for it
\* and leaves its output document as the first run wrote it.
C1_Idempotence ==
    \A d \in Docs :
        (passEnded /\ rerun /\ start[d] = "cached")
            => /\ result[d] = "skipped"
               /\ netCalls[d] = 0
               /\ out[d] = out0[d]

\* C2: a document whose content hash differs from the hash it had when it
\* was last processed is reprocessed by the next run: its output document is
\* regenerated from the current content.
C2_ChangedIsReprocessed ==
    \A d \in Docs :
        (passEnded /\ start[d] = "changed")
            => /\ result[d] = "processed"
               /\ out[d].from = src[d]

\* C3: a document that is unchanged since it was last processed and whose
\* assets are all on disk is skipped by the next run.
C3_UnchangedIsSkipped ==
    \A d \in Docs :
        (passEnded /\ start[d] = "cached") => result[d] = "skipped"

C5_RemoteLinksAreInLedger ==
    pc = "done"
        => \A d \in Docs :
               out[d].exists
                   => \A p \in 1..Len(out[d].from) :
                          p \notin out[d].local
                              => nameAt(out[d].from, p) \in ledger

C8_LedgerConsistency ==
    pc = "done"
        => \A n \in referenced : (n \in images) <=> (n \notin ledger)

inFlight == {i \in 1..Len(downloadPromises) : downloadPromises[i].state = "flight"}

\* C9: while a document is processed at most MAX_CONCURRENT downloadImage
\* calls are in flight, and no call of a group after the awaited one has been
\* started.
C9_ConcurrencyBound ==
    pc = "await"
        => /\ Cardinality(inFlight) <= MAX_CONCURRENT
           /\ \A i \in inFlight : i < chunk + MAX_CONCURRENT

\* C10: a document whose assets were all on disk when its processing began
\* is processed without a single request.
C10_CacheHit ==
    \A d \in Docs : allHit[d] => netCalls[d] = 0

C10_Witness ==
    \E d \in Docs :
        /\ start[d] = "changed"
        /\ result[d] = "processed"
        /\ allHit[d]
        /\ out[d].local # {}

\* the got() requests made so far by the downloadImage calls of a document
RECURSIVE requests(_)
requests(calls) ==
    IF calls = << >> THEN 0 ELSE Head(calls).attempt + requests(Tail(calls))

\* C11: a downloadImage call for a path that does not exist makes at most
\* RETRY_COUNT requests, makes none after a request succeeded, and when all
\* of them failed it throws an error that carries the message of the error
\* caught in the last attempt.
C11_BoundedRetry ==
    pc = "await"
        => /\ \A i \in 1..Len(downloadPromises) :
                  LET call == downloadPromises[i] IN
                      /\ call.attempt \in 1..RETRY_COUNT
                      /\ call.state = "failed"
                             => /\ call.attempt = RETRY_COUNT
                                /\ call.error =
                                       [attempts |-> RETRY_COUNT,
                                        cause |-> <<"process-images", RETRY_COUNT>>]
                      /\ call.state # "failed" => call.error = NoError
           /\ netCalls[files[cur]] = requests(downloadPromises)

C11_Witness ==
    /\ pc = "await"
    /\ \E i, j \in 1..Len(downloadPromises) :
           /\ downloadPromises[i].state = "failed"
           /\ downloadPromises[j].state = "ok"
           /\ downloadPromises[j].attempt = RETRY_COUNT

\* C12: while the downloads of a document are awaited, a downloadImage call
\* that ended in failure has no file at its local path.
C12_NoFileAfterFailure ==
    pc = "await"
        => \A i \in 1..Len(downloadPromises) :
               downloadPromises[i].state = "failed"
                   => generateImageFileName(downloadPromises[i].ref.url) \notin images

\* C13: after a run, every key of mapping.json other than _metadata names
\* an asset that was downloaded or found on disk: it has a file in the images
\* directory, and an asset whose downloads all failed has no key.
C13_MappingKeysAreDownloaded ==
    pc = "done" => mappingFile.keys \subseteq images

C15_LedgerMaintenance ==
    passEnded
        => IF DOMAIN missingImages = {}
           THEN ~missingFile.exists
           ELSE missingFile = [exists |-> TRUE, entries |-> missingImages]

\* C16: when processMarkdownFile has written a document for which a
\* download was recorded as failed, the run goes on with the next document,
\* the output document is written from the current content, every reference
\* whose asset is in the images directory is rewritten, and every reference
\* whose asset is not there keeps its remote URL and is in the failure record.
C16_AssetFailureIsLocal ==
    (pc = "file" /\ cur > 1)
        => LET d == files[cur - 1] IN
           (/\ result[d] = "processed"
            /\ \E n \in DOMAIN missingImages : missingImages[n].sourceFile = d)
               => /\ out[d].exists
                  /\ out[d].from = src[d]
                  /\ \A p \in 1..Len(src[d]) :
                         IF nameAt(src[d], p) \in images
                         THEN p \in out[d].local
                         ELSE /\ p \notin out[d].local
                              /\ nameAt(src[d], p) \in DOMAIN missingImages

\* C17: a document that cannot be read gets processed: false and does not
\* end the run: the loop goes on, and when the run is over every other
\* document was processed or skipped and mapping.json and the failure record
\* were brought up to date.
C17_DocumentFailureIsLocal ==
    (\E d \in Docs : result[d] = "failed")
        => /\ pc \in {"file", "await", "done"}
           /\ pc = "done"
                  => /\ \A e \in Docs :
                            IF e \in unreadable
                            THEN result[e] = "failed"
                            ELSE result[e] \in {"processed", "skipped"} /\ out[e].exists
                     /\ mappingFile.exists /\ mappingFile.parses
                     /\ mappingFile.keys = usedImageFiles
                     /\ ledger = DOMAIN missingImages

C17_Witness ==
    /\ pc = "done"
    /\ result["b.md"] = "failed"
    /\ result["a.md"] = "processed"
    /\ result["c.md"] = "processed"
    /\ out["c.md"].local # {}

\* C18: a run that finds a mapping.json that does not parse loads nothing
\* from it, processes every readable document again and ends normally.
C18_CorruptMappingIsNotFatal ==
    (passEnded /\ existingMapping = "unparseable")
        => /\ pc = "done"
           /\ \A d \in Docs \ unreadable : result[d] = "processed"

\* C20: when a recovery run is over, an asset it retried with success has
\* no entry in missing-images.json, and an asset of missing-images.json it
\* retried without success still has its entry, whose error is the error
\* thrown by the retry.
C20_RecoveryOutcome ==
    pc = "fixed"
        => \A k \in 1..Len(missing) :
               LET n == missing[k].fileName IN
                   IF n \in images
                   THEN n \notin ledger
                   ELSE missing[k].origin = "ledger"
                            => /\ n \in ledger
                               /\ missingFile.entries[n].error =
                                      retryRejection(RETRY_COUNT)

C20_Witness ==
    /\ pc = "fixed"
    /\ \E j, k \in 1..Len(missing) :
           /\ missing[j].origin = "ledger"
           /\ missing[j].fileName \in images
           /\ missing[k].origin = "ledger"
           /\ missing[k].fileName \notin images

\* C21: a recovery run retries exactly the assets that are named in
\* missing-images.json or in mapping.json and have no file in the images
\* directory, each of them once: the scan lists each such asset once and no
\* other, and the loop visits the list item by item up to its end.
C21_RecoveryCoverage ==
    [][/\ (atRest /\ pc' \in {"retry", "fixed"})
           => LET named == ledger \cup (IF mappingFile.exists
                                        THEN mappingFile.keys ELSE {})
                  absent == {n \in named : n \notin images}
              IN  /\ {missing'[k].fileName : k \in 1..Len(missing')} = absent
                  /\ Len(missing') = Cardinality(absent)
       /\ (pc = "retry" /\ item' # item) => (item' = item + 1 /\ missing' = missing)
       /\ (pc = "retry" /\ pc' = "fixed") => item > Len(missing)]_vars

C21_Witness ==
    /\ pc = "fixed"
    /\ Len(missing) = 1
    /\ missing[1].origin = "mapping"
    /\ ledger \cap images # {}

\* C22: no step of a recovery run deletes a file of the images directory,
\* changes a source or output document or changes mapping.json; the files it
\* adds to the images directory are assets it retried.
C22_RecoveryFrame ==
    [][((atRest \/ pc = "retry") /\ pc' \in {"retry", "fixed", "fixExit1"})
           => /\ src' = src
              /\ out' = out
              /\ mappingFile' = mappingFile
              /\ images \subseteq images'
              /\ \A n \in images' \ images :
                     pc = "retry" /\ item <= Len(missing) /\ n = missing[item].fileName]_vars

C22_Witness ==
    /\ pc = "fixed"
    /\ orphaned # {}
    /\ orphaned \subseteq images
    /\ \E k \in 1..Len(missing) : missing[k].fileName \in images

\* C23: after a recovery run, no entry of missing-images.json names an asset
\* whose file is in the images directory.
C23_LedgerAfterRecovery ==
    pc = "fixed" => ledger \cap images = {}

\* C24: a document without image references that was processed has an
\* output document equal to its source and leaves a fingerprint in the
\* metadata of the mapping, and the run that directly follows a completed
\* run skips such a document when it is unchanged.
C24_ZeroAssetDocument ==
    \A d \in Docs :
        src[d] = NoImages
            => /\ result[d] = "processed"
                      => /\ out[d] = [exists |-> TRUE, from |-> src[d], local |-> {}]
                         /\ mapping.hasMeta
                         /\ mappingFile.exists /\ mappingFile.hasMeta
               /\ (passEnded /\ rerun /\ start[d] = "cached")
                      => result[d] = "skipped"

\* C25: when the cleanup runs, every asset referenced by a document that
\* the run processed or skipped is in usedImageFiles, and the cleanup deletes
\* the file of no such asset.
C25_UsedAssetProtection ==
    [][(pc = "file" /\ pc' = "done")
           => \A d \in Docs :
                  result[d] \in {"processed", "skipped"}
                      => /\ namesOf(src[d]) \subseteq usedImageFiles
                         /\ (namesOf(src[d]) \cap images) \subseteq images']_vars

C25_Witness ==
    /\ pc = "done"
    /\ cleanedCount > 0
    /\ \E d \in Docs :
           /\ result[d] = "processed"
           /\ namesOf(src[d]) # {}
           /\ namesOf(src[d]) \cap images # {}
           /\ namesOf(src[d]) \ images # {}

\* C27: a run in which nothing fails but downloads of assets ends with exit
\* code 0.
C27_ExitStatus ==
    passEnded => pc = "done"

\* C29: a run that finds and loads a mapping.json written by an earlier run
\* handles every document, runs the cleanup and writes mapping.json and ends
\* normally.
C29_ExistingMappingCompletes ==
    (passEnded /\ existingMapping = "loaded")
        => /\ pc = "done"
           /\ \A d \in Docs : result[d] \in {"processed", "skipped"}
           /\ mappingFile.keys = usedImageFiles

\* C28: extractImageUrls returns every inline-link reference of the content
\* and every tag reference except those whose URL is the URL of an
\* inline-link reference: a URL referenced twice gives two references in
\* either syntax.
C28_NoDeduplicationByUrl ==
    extracted.done
        => extracted.urls =
               SelectSeq(text, isMarkdown) \o
               SelectSeq(text, LAMBDA r :
                   /\ r.type = "html"
                   /\ ~\E j \in 1..Len(text) :
                          text[j].type = "markdown" /\ text[j].url = r.url)

\* C30: isFileProcessed answers true for a document exactly when its output
\* file exists, mapping.json parses and holds a metadata sourceFileHash equal
\* to the hash of the document's content, and every asset the document
\* references has its file in the images directory; a mapping.json without a
\* metadata hash makes it answer false.
C30_SkipDecision ==
    \A d \in Docs :
        wasProcessed.file = d
            => (wasProcessed.value <=>
                   /\ out[d].exists
                   /\ mappingFile.exists /\ mappingFile.parses
                   /\ mappingFile.hasMeta
                   /\ mappingFile.sourceFileHash = calculateFileHash(src[d])
                   /\ namesOf(src[d]) \subseteq images)

C31_OneTransferPerAsset ==
    \A i, j \in 1..Len(downloadPromises) :
        i # j => generateImageFileName(downloadPromises[i].ref.url)
                     # generateImageFileName(downloadPromises[j].ref.url)

\* C32: for every configured retry count, 0 included, a downloadImage call
\* that returned, and an asset its caller counted as downloaded, has a file
\* at the local path.
C32_SuccessMeansFile ==
    (download.state = "returned" \/ download.counted)
        => generateImageFileName(download.url) \in images

\* C33: the cleanup of a pass deletes no asset file that a local link of an
\* output document on disk points to, also when the source of that output
\* document could not be read in the pass.
C33_CleanupKeepsLinkedAssets ==
    [][(pc = "file" /\ pc' = "done")
          => \A d \in Docs :
                 LET linked == {generateImageFileName(out'[d].from[p].url) :
                                   p \in out'[d].local}
                 IN  out'[d].exists => (linked \cap images) \subseteq images'
      ]_vars

\* C34: when a recovery run has ended, every asset that mapping.json names
\* and that is absent from the images directory has an entry in
\* missing-images.json, whether or not it had one before the run.
C34_AbsentAssetsAreInLedger ==
    (pc = "fixed" /\ mappingFile.exists)
        => \A n \in mappingFile.keys : n \notin images => n \in ledger

\* C35: generateImageFileName returns the last path segment of the URL with
\* the forbidden characters replaced by "_" when the segment contains a dot,
\* and otherwise the 8 hex digits of the hash of the URL followed by the
\* extension found in the URL string, jpg when none is found.
C35_NameDerivation ==
    nameCall.done
        => LET url == nameCall.url
           IN  nameCall.fileName =
                   IF includes(url.segment, ".")
                   THEN segmentName(url, replaceForbidden(url.segment))
                   ELSE hashName(url, IF url.sniffed # "" THEN url.sniffed ELSE "jpg")

\* C37: with LOG_LEVEL set to one of DEBUG, INFO, WARN, ERROR, Logger.log
\* emits a message of one of these levels exactly when the level of the
\* message is at least the configured one in the order DEBUG < INFO < WARN <
\* ERROR; with LOG_LEVEL=DEBUG debug messages are emitted.
C37_LogLevelFiltering ==
    logCall.configured \in DOMAIN LOG_LEVELS
        => \A i \in 1..Len(logCall.calls) :
               LET call == logCall.calls[i]
               IN  call.level \in DOMAIN LOG_LEVELS
                       => (call.emitted <=>
                              LOG_LEVELS[call.level] >= LOG_LEVELS[logCall.configured])

\* C36: no downloadImage call makes more than RETRY_COUNT attempts, every call
\* in flight is eventually settled, and every pass that has begun to process
\* documents eventually ends.
C36_PassTerminates ==
    /\ [](\A i \in 1..Len(downloadPromises) :
              downloadPromises[i].attempt \in 1..RETRY_COUNT)
    /\ \A i \in 1..MaxRefs :
           (i <= Len(downloadPromises) /\ downloadPromises[i].state = "flight")
               ~> (i <= Len(downloadPromises) => settled(i))
    /\ (pc \in {"file", "await"}) ~> (pc \in {"done", "exit1"})

C36_Witness ==
    /\ pc = "done"
    /\ missingFile.exists
    /\ \E d \in Docs : result[d] = "processed" /\ netCalls[d] > RETRY_COUNT
====
